---- MODULE Spec2Model ----
(***************************************************************************)
(* LocalFileDatabase (src/functions/utils/localFileDatabase.js): a JSON    *)
(* file backed key-value adapter with three namespaces (files, settings,   *)
(* operations), a lazy load, a full rewrite of the file after every        *)
(* mutation, and a generic interface routed by key prefix.                 *)
(*                                                                         *)
(* Strings are sequences of tokens; every token starts with a different    *)
(* character, so the token-wise order below is the code-unit order that    *)
(* Array.prototype.sort uses.  JavaScript values are written as tagged     *)
(* strings ("s:dark", "s:", "n:0", "b:false", "null", "undefined", "{}").   *)
(* Every async method is cut at its awaits: the invocation runs up to the  *)
(* first await of ensureLoaded, readFile captures the file content, the    *)
(* continuation of ensureLoaded assigns this.data, the body of the method  *)
(* runs up to the await inside persist, writeFile serialises this.data,    *)
(* and the write then lands (or fails).                                    *)
(***************************************************************************)
EXTENDS Integers, Sequences, FiniteSets, TLC

\* ------------------------------------------------------------------ bounds

\* Invocations per behaviour of the one-at-a-time specification.
MaxCalls == 2

\* Invocations per behaviour of the overlapping-calls specification.
MaxConcCalls == 3

\* Pages a paging client asks for in one listing.
MaxPages == 4

\* Invocations per behaviour of the shared-identifier specification.
MaxSharedCalls == 3

\* ----------------------------------------------------------------- strings

Tokens == {"a", "b", "index@", "manage@", "operation_", "sysConfig@", "x", "y"}

\* The first character of each token, as its position in code-unit order.
Rank(t) ==
    CASE t = "a" -> 1 [] t = "b" -> 2 [] t = "index@" -> 3 [] t = "manage@" -> 4
      [] t = "operation_" -> 5 [] t = "sysConfig@" -> 6 [] t = "x" -> 7 [] OTHER -> 8

SettingsPrefix == <<"manage@", "sysConfig@">>

OperationPrefix == <<"manage@", "index@", "operation_">>

\* String.prototype.startsWith
StartsWith(s, p) == Len(p) <= Len(s) /\ SubSeq(s, 1, Len(p)) = p

\* key.replace(prefix, '') for a key that starts with prefix: the first
\* occurrence is the one at position 0.
StripPrefix(s, p) == SubSeq(s, Len(p) + 1, Len(s))

\* s < t in code-unit order (a proper prefix sorts first).
RECURSIVE StrLess(_, _)
StrLess(s, t) ==
    IF s = <<>> THEN t # <<>>
    ELSE IF t = <<>> THEN FALSE
    ELSE IF s[1] # t[1] THEN Rank(s[1]) < Rank(t[1])
    ELSE StrLess(Tail(s), Tail(t))

\* Array.prototype.sort() of a set of distinct strings.
RECURSIVE SortKeys(_)
SortKeys(S) ==
    IF S = {} THEN <<>>
    ELSE LET m == CHOOSE x \in S : \A y \in S \ {x} : StrLess(x, y)
         IN  <<m>> \o SortKeys(S \ {m})

\* Array.prototype.slice(from, to) with 0-based, end-exclusive indices,
\* for 0 <= from.
Slice(seq, from, to) ==
    LET hi == IF to < 0 THEN Len(seq) + to ELSE IF to > Len(seq) THEN Len(seq) ELSE to
    IN  IF hi <= from THEN <<>> ELSE SubSeq(seq, from + 1, hi)

\* An indexOf that gives the last index when the element is absent.
IndexOfAbsentIsLast(seq, x) ==
    IF \E i \in 1..Len(seq) : seq[i] = x
    THEN (CHOOSE i \in 1..Len(seq) : seq[i] = x /\ \A j \in 1..(i - 1) : seq[j] # x) - 1
    ELSE Len(seq) - 1

\* Array.prototype.indexOf, 0-based, -1 when absent.
IndexOf(seq, x) ==
    IF \E i \in 1..Len(seq) : seq[i] = x
    THEN (CHOOSE i \in 1..Len(seq) : seq[i] = x /\ \A j \in 1..(i - 1) : seq[j] # x) - 1
    ELSE 0 - 1

\* --------------------------------------------------------- JavaScript values

\* ToBoolean: what `x || y`, `x ? a : b` and `!x` test.
Truthy(v) == v \notin {"undefined", "null", "s:", "n:0", "b:false"}

\* x ?? y
Nullish(v) == v \in {"undefined", "null"}

\* (op.timestamp || 0) as a number
TimestampNumber(ts) == CASE ts = "n:1" -> 1 [] ts = "n:2" -> 2 [] OTHER -> 0

FileFields == {"value", "metadata"}

OperationFields == {"type", "timestamp", "data", "processed"}

\* JSON.stringify of an object: a property whose value is undefined is left out.
StringifyObject(obj) == [f \in {g \in DOMAIN obj : obj[g] # "undefined"} |-> obj[f]]

\* JSON.stringify of a mapping of plain values: undefined values are left out.
StringifyValues(map) == [k \in {j \in DOMAIN map : map[j] # "undefined"} |-> map[k]]

\* Reading a property of an object: undefined when the object has none.
Prop(obj, f) == IF f \in DOMAIN obj THEN obj[f] ELSE "undefined"

\* obj[k] = v
SetKey(map, k, v) == [j \in DOMAIN map \cup {k} |-> IF j = k THEN v ELSE map[j]]

\* delete obj[k]
DeleteKey(map, k) == [j \in DOMAIN map \ {k} |-> map[j]]

EmptyMap == [k \in {} |-> "undefined"]

\* The operations object keeps its entries in insertion order (Object.entries):
\* a sequence of [id, op].  Assigning an id that is present keeps its place.
OperationIndex(ops, id) ==
    IF \E i \in 1..Len(ops) : ops[i].id = id
    THEN CHOOSE i \in 1..Len(ops) : ops[i].id = id
    ELSE 0

SetOperation(ops, id, op) ==
    IF OperationIndex(ops, id) = 0
    THEN Append(ops, [id |-> id, op |-> op])
    ELSE [ops EXCEPT ![OperationIndex(ops, id)] = [id |-> id, op |-> op]]

DeleteOperation(ops, id) ==
    LET i == OperationIndex(ops, id)
    IN  IF i = 0 THEN ops ELSE SubSeq(ops, 1, i - 1) \o SubSeq(ops, i + 1, Len(ops))

\* The Document of the constructor (line 11).
EmptyData == [files |-> EmptyMap, settings |-> EmptyMap, operations |-> <<>>]

\* A serialisation that leaves the settings out.
JSONstringifyNoSettings(d) ==
    [files |-> [k \in DOMAIN d.files |-> StringifyObject(d.files[k])],
     settings |-> EmptyMap,
     operations |-> [i \in 1..Len(d.operations) |->
                        [id |-> d.operations[i].id,
                         op |-> StringifyObject(d.operations[i].op)]]]

\* The three namespaces of the Document.
Namespaces == {"files", "settings", "operations"}

\* A JavaScript array is an object that has elements; the properties assigned
\* to it by name are properties like those of any object.
IsArray(d) == "elements" \in DOMAIN d

\* JSON.stringify(this.data, null, 2): the file text, kept as the JSON value
\* it denotes.  An array is serialised as its elements: the properties it
\* has by name are left out.
JSONstringify(d) ==
    IF IsArray(d)
    THEN [elements |-> d.elements]
    ELSE [files |-> [k \in DOMAIN d.files |-> StringifyObject(d.files[k])],
          settings |-> StringifyValues(d.settings),
          operations |-> [i \in 1..Len(d.operations) |->
                             [id |-> d.operations[i].id,
                              op |-> StringifyObject(d.operations[i].op)]]]

\* What a JSON text denotes: an array or an object.
TextKind(text) == IF IsArray(text) THEN "array" ELSE "object"

\* Lines 59-61: a namespace the Document lacks becomes an empty mapping; what
\* else the Document has stays.
WithDefaults(d) ==
    [f \in DOMAIN d \cup Namespaces |->
        IF f \in DOMAIN d THEN d[f] ELSE IF f = "operations" THEN <<>> ELSE EmptyMap]

\* ------------------------------------------------------------------- inputs

Callers == {1, 2}

FileIds == {<<>>, <<"a">>, <<"a", "b">>}

FileValues == {"s:v1", "s:v2"}

\* options.metadata: not given, or an object.
MetadataOptions == {"undefined", "{tag}"}

SettingKeys == {SettingsPrefix \o <<"a">>, SettingsPrefix \o <<"b">>}

SettingValues == {"s:dark", "s:", "n:0", "b:false", "null"}

OperationIds == {<<"x">>, <<"y">>}

\* Operation records as callers pass them: processed may be left out.
Operations ==
    {[type |-> "s:upload", timestamp |-> "n:1", data |-> "{}"],
     [type |-> "s:upload", timestamp |-> "n:2", data |-> "{}", processed |-> "b:true"],
     [type |-> "s:delete", data |-> "{}", processed |-> "b:true"],
     [type |-> "s:delete", timestamp |-> "n:1", data |-> "{}", processed |-> "b:false"]}

\* An option that may be left out: [given, v].
None == [given |-> FALSE, s |-> <<>>]

Some(s) == [given |-> TRUE, s |-> s]

NoLimit == [given |-> FALSE, n |-> 0]

Limit(n) == [given |-> TRUE, n |-> n]

\* The file a new adapter instance can find: none, one that cannot be read,
\* one that is not JSON, or a Document written earlier (old ones lack
\* namespaces, or a record's metadata).
SampleData ==
    [files |-> (<<"a">> :> [value |-> "s:v1", metadata |-> "{tag}"]) @@
               (<<"a", "b">> :> [value |-> "s:v2"]),
     settings |-> (SettingsPrefix \o <<"a">> :> "s:dark"),
     operations |-> <<[id |-> <<"x">>, op |-> [type |-> "s:upload", timestamp |-> "n:2",
                                                data |-> "{}", processed |-> "b:true"]],
                      [id |-> <<"y">>, op |-> [type |-> "s:delete", timestamp |-> "n:1",
                                                data |-> "{}"]]>>]

InitialFiles ==
    {[kind |-> "absent", doc |-> EmptyMap],
     [kind |-> "unreadable", doc |-> EmptyMap],
     [kind |-> "malformed", doc |-> EmptyMap],
     [kind |-> "object", doc |-> EmptyMap],
     [kind |-> "object", doc |-> [files |-> SampleData.files]],
     [kind |-> "object", doc |-> SampleData]}

\* -------------------------------------------------------------------- state

VARIABLES
    nodeRuntime,  \* process.versions.node is there
    disk,         \* the backing file
    data,         \* this.data
    dataLoaded,   \* this.dataLoaded
    fsPromise,    \* this.fsPromise is set
    pc,           \* where each caller's call is
    call,         \* the call each caller has in flight
    content,      \* what readFile gave the call
    buffer,       \* what the call handed to writeFile
    ret,          \* what the call returned or threw
    ncalls,       \* invocations so far
    loads,        \* times line 51 assigned this.data
    logged,       \* console.error calls
    lastPut,      \* per file id: the last putFile, if nothing wrote the id since
    listing       \* a paging client's listFiles pages so far

vars == <<nodeRuntime, disk, data, dataLoaded, fsPromise, pc, call, content, buffer,
          ret, ncalls, loads, logged, lastPut, listing>>

NoCall ==
    [method |-> "none", via |-> "none", key |-> <<>>, value |-> "undefined",
     metadata |-> "undefined", operation |-> EmptyMap, prefix |-> None,
     limit |-> NoLimit, cursor |-> None, processed |-> "undefined", writes |-> 0]

NoContent == [kind |-> "none", doc |-> EmptyMap]

NoResult == [kind |-> "none"]

NoListing == [started |-> FALSE, prefix |-> None, limit |-> NoLimit, pages |-> <<>>]

\* A new adapter instance (lines 8-14).
Constructed ==
    /\ data = EmptyData
    /\ dataLoaded = FALSE
    /\ fsPromise = FALSE
    /\ pc = [c \in Callers |-> "idle"]
    /\ call = [c \in Callers |-> NoCall]
    /\ content = [c \in Callers |-> NoContent]
    /\ buffer = [c \in Callers |-> EmptyData]
    /\ ret = [c \in Callers |-> NoResult]
    /\ ncalls = 0
    /\ loads = 0
    /\ logged = 0
    /\ lastPut = EmptyMap
    /\ listing = NoListing

Init ==
    /\ nodeRuntime \in BOOLEAN
    /\ disk \in InitialFiles
    /\ Constructed

\* --------------------------------------------------------------- lifecycle

ConfigError == [kind |-> "error", error |-> "LocalFileDatabase requires a Node.js runtime."]

WriteError == [kind |-> "error", error |-> "writeFile"]

\* Line 59 on a Document that is null or a primitive.
LoadTypeError == [kind |-> "error", error |-> "TypeError"]

Success == [kind |-> "success"]

Null == [kind |-> "value", value |-> "null"]

\* getFs without the runtime check.
getFsNeverThrows == FALSE

\* getFs (lines 16-24) throws: no module cached and no Node.js runtime.
getFsThrows == ~fsPromise /\ ~nodeRuntime

\* A public method is invoked with call m: it runs into ensureLoaded, which
\* returns at once when the data is loaded (line 42), throws out of getFs
\* (line 44), or goes on to read the file.
ensureLoaded(c, m) ==
    /\ pc[c] = "idle"
    /\ call' = [call EXCEPT ![c] = m]
    /\ ncalls' = ncalls + 1
    /\ IF dataLoaded
       THEN /\ pc' = [pc EXCEPT ![c] = "body"]
            /\ UNCHANGED <<fsPromise, ret>>
       ELSE IF getFsThrows
       THEN /\ pc' = [pc EXCEPT ![c] = "failed"]
            /\ ret' = [ret EXCEPT ![c] = ConfigError]
            /\ UNCHANGED fsPromise
       ELSE /\ pc' = [pc EXCEPT ![c] = "readFile"]
            /\ fsPromise' = TRUE
            /\ UNCHANGED ret
    /\ UNCHANGED <<nodeRuntime, disk, data, dataLoaded, content, buffer, loads, logged,
                   lastPut>>

\* A call of a public method by a caller that is not paging.
Call(c, m) == ensureLoaded(c, m) /\ UNCHANGED listing

\* fs.readFile (line 50) completes with what the file holds at that moment.
readFile(c) ==
    /\ pc[c] = "readFile"
    /\ content' = [content EXCEPT ![c] = disk]
    /\ pc' = [pc EXCEPT ![c] = "loadFinish"]
    /\ UNCHANGED <<listing, nodeRuntime, disk, data, dataLoaded, fsPromise, call, buffer, ret,
                   ncalls, loads, logged, lastPut>>

\* Lines 51-62, run when readFile has settled: this.data is replaced when the
\* content parses, an error other than ENOENT is logged, the namespaces are
\* defaulted and the flag is set.
LoadedData(d, text) ==
    IF text.kind \in {"object", "array"} THEN WithDefaults(text.doc) ELSE WithDefaults(d)

\* ensureLoaded with a catch that rethrows what is not ENOENT.
ensureLoadedRethrows(c) ==
    /\ pc[c] = "loadFinish"
    /\ content' = [content EXCEPT ![c] = NoContent]
    /\ IF content[c].kind \in {"unreadable", "malformed"}
       THEN /\ pc' = [pc EXCEPT ![c] = "failed"]
            /\ ret' = [ret EXCEPT ![c] = [kind |-> "error", error |-> "readFile"]]
            /\ UNCHANGED <<data, loads, logged, dataLoaded>>
       ELSE /\ data' = LoadedData(data, content[c])
            /\ loads' = IF content[c].kind = "object" THEN loads + 1 ELSE loads
            /\ dataLoaded' = TRUE
            /\ pc' = [pc EXCEPT ![c] = "body"]
            /\ UNCHANGED <<logged, ret>>
    /\ UNCHANGED <<listing, nodeRuntime, disk, fsPromise, call, buffer, ncalls, lastPut>>

\* When the content is null or a primitive, line 51 assigns it and line 59
\* throws a TypeError (the module is strict code): the error leaves
\* ensureLoaded and the method, and the flag stays false.
ensureLoadedFinish(c) ==
    /\ pc[c] = "loadFinish"
    /\ content' = [content EXCEPT ![c] = NoContent]
    /\ IF content[c].kind = "scalar"
       THEN /\ data' = content[c].doc
            /\ loads' = loads + 1
            /\ pc' = [pc EXCEPT ![c] = "failed"]
            /\ ret' = [ret EXCEPT ![c] = LoadTypeError]
            /\ UNCHANGED <<logged, dataLoaded>>
       ELSE /\ data' = LoadedData(data, content[c])
            /\ loads' = IF content[c].kind \in {"object", "array"} THEN loads + 1 ELSE loads
            /\ logged' = IF content[c].kind \in {"unreadable", "malformed"}
                          THEN logged + 1 ELSE logged
            /\ dataLoaded' = TRUE
            /\ pc' = [pc EXCEPT ![c] = "body"]
            /\ UNCHANGED ret
    /\ UNCHANGED <<listing, nodeRuntime, disk, fsPromise, call, buffer, ncalls, lastPut>>

\* A mutating method calls persist (lines 65-69): getFs, getPath and mkdir
\* are awaited before this.data is serialised.
StartPersist(c) ==
    IF getFsThrows
    THEN /\ pc' = [pc EXCEPT ![c] = "failed"]
         /\ ret' = [ret EXCEPT ![c] = ConfigError]
    ELSE /\ pc' = [pc EXCEPT ![c] = "persist"]
         /\ UNCHANGED ret

\* Line 70: JSON.stringify(this.data) is evaluated and handed to fs.writeFile.
persist(c) ==
    /\ pc[c] = "persist"
    /\ buffer' = [buffer EXCEPT ![c] = JSONstringify(data)]
    /\ call' = [call EXCEPT ![c].writes = @ + 1]
    /\ pc' = [pc EXCEPT ![c] = "writeFile"]
    /\ UNCHANGED <<listing, nodeRuntime, disk, data, dataLoaded, fsPromise, content, ret, ncalls,
                   loads, logged, lastPut>>

\* The record a putFile call is to leave: what a later getFile should return.
\* It counts once the call has returned success, unless the key was written
\* or deleted in between.
Expected(c, m) ==
    [value |-> m.value, metadata |-> IF m.metadata = "undefined" THEN "{}" ELSE m.metadata,
     by |-> c, returned |-> FALSE]

\* The write lands: the file now holds the text; the method returns
\* {success: true}.
writeFile(c) ==
    /\ pc[c] = "writeFile"
    /\ disk' = [kind |-> TextKind(buffer[c]), doc |-> buffer[c]]
    /\ buffer' = [buffer EXCEPT ![c] = EmptyData]
    /\ pc' = [pc EXCEPT ![c] = "done"]
    /\ ret' = [ret EXCEPT ![c] = Success]
    /\ lastPut' = IF /\ call[c].method = "putFile"
                     /\ call[c].key \in DOMAIN lastPut
                     /\ lastPut[call[c].key].by = c
                  THEN [lastPut EXCEPT ![call[c].key].returned = TRUE]
                  ELSE lastPut
    /\ UNCHANGED <<listing, nodeRuntime, data, dataLoaded, fsPromise, call, content, ncalls, loads,
                   logged>>

\* A rejected write that persist tries again.
writeFileRetries(c) ==
    /\ pc[c] = "writeFile"
    /\ pc' = [pc EXCEPT ![c] = "persist"]
    /\ UNCHANGED <<listing, nodeRuntime, disk, data, dataLoaded, fsPromise, call, content,
                   buffer, ret, ncalls, loads, logged, lastPut>>

\* The write is rejected (disk full, permission denied): the rejection leaves
\* persist and the method.
writeFileFails(c) ==
    /\ pc[c] = "writeFile"
    /\ buffer' = [buffer EXCEPT ![c] = EmptyData]
    /\ pc' = [pc EXCEPT ![c] = "failed"]
    /\ ret' = [ret EXCEPT ![c] = WriteError]
    /\ UNCHANGED <<listing, nodeRuntime, disk, data, dataLoaded, fsPromise, call, content, ncalls,
                   loads, logged, lastPut>>

\* The caller has its result (or its error) and may call again.
Settle(c) ==
    /\ pc[c] \in {"done", "failed"}
    /\ pc' = [pc EXCEPT ![c] = "idle"]
    /\ call' = [call EXCEPT ![c] = NoCall]
    /\ ret' = [ret EXCEPT ![c] = NoResult]
    /\ UNCHANGED <<listing, nodeRuntime, disk, data, dataLoaded, fsPromise, content, buffer, ncalls,
                   loads, logged, lastPut>>

\* A method that only reads returns r.
Return(c, r) ==
    /\ pc' = [pc EXCEPT ![c] = "done"]
    /\ ret' = [ret EXCEPT ![c] = r]
    /\ UNCHANGED <<listing, nodeRuntime, disk, data, dataLoaded, fsPromise, call, content, buffer,
                   ncalls, loads, logged, lastPut>>

\* A method that writes has changed this.data to d and calls persist.
Mutate(c, d, put) ==
    /\ data' = d
    /\ lastPut' = put
    /\ StartPersist(c)
    /\ UNCHANGED <<listing, nodeRuntime, disk, dataLoaded, fsPromise, call, content, buffer, ncalls,
                   loads, logged>>

\* ---------------------------------------------------------- file namespace

DefaultLimit == 1000

\* putFile with the metadata option ignored.
putFileDataNoMetadata(d, fileId, value, metadata) ==
    [d EXCEPT !.files = SetKey(@, fileId,
        [value |-> IF value = "undefined" THEN "s:" ELSE value, metadata |-> "{}"])]

\* putFile storing the record in a Document that holds nothing else but files.
putFileDataFresh(d, fileId, value, metadata) ==
    [EmptyData EXCEPT !.files = SetKey(d.files, fileId,
        [value |-> IF value = "undefined" THEN "s:" ELSE value,
         metadata |-> IF Truthy(metadata) THEN metadata ELSE "{}"])]

\* Lines 76-77.
putFileData(d, fileId, value, metadata) ==
    [d EXCEPT !.files = SetKey(@, fileId,
        [value |-> IF value = "undefined" THEN "s:" ELSE value,
         metadata |-> IF Truthy(metadata) THEN metadata ELSE "{}"])]

\* Lines 84-86.
getFileResult(d, fileId) ==
    IF fileId \notin DOMAIN d.files
    THEN Null
    ELSE LET record == d.files[fileId]
         IN  [kind |-> "file", value |-> Prop(record, "value"),
              metadata |-> IF Truthy(Prop(record, "metadata"))
                           THEN Prop(record, "metadata") ELSE "{}"]

\* Line 95.
deleteFileData(d, fileId) == [d EXCEPT !.files = DeleteKey(@, fileId)]

\* options.prefix || ''
PrefixOf(prefix) == IF prefix.given /\ prefix.s # <<>> THEN prefix.s ELSE <<>>

\* options.limit || 1000
LimitOf(limit) == IF limit.given /\ limit.n # 0 THEN limit.n ELSE DefaultLimit

\* options.cursor || null
CursorOf(cursor) == IF cursor.given /\ cursor.s # <<>> THEN cursor ELSE None

\* Lines 102-119.
listFilesResult(d, options) ==
    LET prefix == PrefixOf(options.prefix)
        limit == LimitOf(options.limit)
        cursor == CursorOf(options.cursor)
        allKeys == SortKeys({key \in DOMAIN d.files : StartsWith(key, prefix)})
        startIndex == IF cursor.given THEN IndexOf(allKeys, cursor.s) + 1 ELSE 0
        sliced == Slice(allKeys, startIndex, startIndex + limit + 1)
        hasMore == Len(sliced) > limit
        names == IF hasMore THEN Slice(sliced, 0, limit) ELSE sliced
        keys == [i \in 1..Len(names) |->
                    [name |-> names[i],
                     metadata |-> IF Truthy(Prop(d.files[names[i]], "metadata"))
                                  THEN Prop(d.files[names[i]], "metadata") ELSE "{}"]]
    IN  [kind |-> "files", keys |-> keys,
         cursor |-> IF hasMore THEN Some(keys[Len(keys)].name) ELSE None,
         list_complete |-> ~hasMore]

\* Lines 227-228 of get: file ? file.value : null.
getValue(file) == IF file.kind # "file" THEN Null ELSE [kind |-> "value", value |-> file.value]

putFile(c) ==
    /\ pc[c] = "body" /\ call[c].method = "putFile"
    /\ Mutate(c, putFileData(data, call[c].key, call[c].value, call[c].metadata),
              SetKey(lastPut, call[c].key, Expected(c, call[c])))

getFile(c) ==
    /\ pc[c] = "body" /\ call[c].method = "getFile"
    /\ Return(c, IF call[c].via = "get"
                 THEN getValue(getFileResult(data, call[c].key))
                 ELSE getFileResult(data, call[c].key))

deleteFile(c) ==
    /\ pc[c] = "body" /\ call[c].method = "deleteFile"
    /\ Mutate(c, deleteFileData(data, call[c].key), DeleteKey(lastPut, call[c].key))

listFiles(c) ==
    /\ pc[c] = "body" /\ call[c].method = "listFiles"
    /\ Return(c, listFilesResult(data, call[c]))

\* ------------------------------------------------------ settings namespace

\* putSetting writing the settings into a fresh Document.
putSettingDataFresh(d, key, value) == [EmptyData EXCEPT !.settings = SetKey(d.settings, key, value)]

\* Line 125.
putSettingData(d, key, value) == [d EXCEPT !.settings = SetKey(@, key, value)]

\* Line 132: this.data.settings[key] ?? null.
getSettingResult(d, key) ==
    [kind |-> "value",
     value |-> IF Nullish(Prop(d.settings, key)) THEN "null" ELSE d.settings[key]]

\* deleteSetting that empties the namespace.
deleteSettingDataClears(d, key) == [d EXCEPT !.settings = EmptyMap]

\* Line 137.
deleteSettingData(d, key) == [d EXCEPT !.settings = DeleteKey(@, key)]

\* Lines 144-152.
listSettingsResult(d, options) ==
    LET prefix == PrefixOf(options.prefix)
        limit == LimitOf(options.limit)
        names == Slice(SortKeys({key \in DOMAIN d.settings : StartsWith(key, prefix)}),
                       0, limit)
    IN  [kind |-> "settings",
         keys |-> [i \in 1..Len(names) |-> [name |-> names[i], value |-> d.settings[names[i]]]]]

\* Lines 234-235 of getWithMetadata: value ? {value, metadata: {}} : null.
getWithMetadataSetting(r) ==
    IF Truthy(r.value) THEN [kind |-> "file", value |-> r.value, metadata |-> "{}"] ELSE Null

putSetting(c) ==
    /\ pc[c] = "body" /\ call[c].method = "putSetting"
    /\ Mutate(c, putSettingData(data, call[c].key, call[c].value), lastPut)

getSetting(c) ==
    /\ pc[c] = "body" /\ call[c].method = "getSetting"
    /\ Return(c, IF call[c].via = "getWithMetadata"
                 THEN getWithMetadataSetting(getSettingResult(data, call[c].key))
                 ELSE getSettingResult(data, call[c].key))

deleteSetting(c) ==
    /\ pc[c] = "body" /\ call[c].method = "deleteSetting"
    /\ Mutate(c, deleteSettingData(data, call[c].key), lastPut)

listSettings(c) ==
    /\ pc[c] = "body" /\ call[c].method = "listSettings"
    /\ Return(c, listSettingsResult(data, call[c]))

\* ----------------------------------------------------- operation namespace

\* JSON.stringify(operation), and JSON.parse of such a text.
JSONtext(obj) == [json |-> StringifyObject(obj)]

JSONparse(text) == text.json

\* putIndexOperation that also stores the operation id as a file.
putIndexOperationDataAlsoFile(d, operationId, operation) ==
    [d EXCEPT !.files = SetKey(@, operationId, [value |-> "s:", metadata |-> "{}"]),
              !.operations = SetOperation(@, operationId,
                  [type |-> Prop(operation, "type"),
                   timestamp |-> Prop(operation, "timestamp"),
                   data |-> Prop(operation, "data"),
                   processed |-> IF Nullish(Prop(operation, "processed"))
                                 THEN "b:false" ELSE operation.processed])]

\* Lines 158-163.
putIndexOperationData(d, operationId, operation) ==
    [d EXCEPT !.operations = SetOperation(@, operationId,
        [type |-> Prop(operation, "type"),
         timestamp |-> Prop(operation, "timestamp"),
         data |-> Prop(operation, "data"),
         processed |-> IF Nullish(Prop(operation, "processed"))
                       THEN "b:false" ELSE operation.processed])]

\* The record lines 172-177 and 197-203 build from a stored operation.
OperationView(op) ==
    [type |-> Prop(op, "type"), timestamp |-> Prop(op, "timestamp"),
     data |-> Prop(op, "data"),
     processed |-> IF Nullish(Prop(op, "processed")) THEN "b:false" ELSE op.processed]

\* Lines 170-177.
getIndexOperationResult(d, operationId) ==
    IF OperationIndex(d.operations, operationId) = 0
    THEN Null
    ELSE [kind |-> "operation",
          op |-> OperationView(d.operations[OperationIndex(d.operations, operationId)].op)]

\* Line 182.
deleteIndexOperationData(d, operationId) ==
    [d EXCEPT !.operations = DeleteOperation(@, operationId)]

\* Array.prototype.sort with (a.timestamp || 0) - (b.timestamp || 0): stable.
RECURSIVE SortByTimestamp(_)
SortByTimestamp(entries) ==
    IF entries = <<>> THEN <<>>
    ELSE LET n == Len(entries)
             last == entries[n]
             front == SortByTimestamp(SubSeq(entries, 1, n - 1))
             t(e) == TimestampNumber(Prop(e.op, "timestamp"))
             at == Cardinality({i \in 1..Len(front) : t(front[i]) <= t(last)})
         IN  SubSeq(front, 1, at) \o <<last>> \o SubSeq(front, at + 1, Len(front))

\* listIndexOperations with the limit applied before the filter.
listIndexOperationsLimitFirst(d, options) ==
    LET limit == LimitOf(options.limit)
        processedFilter == options.processed
        Keep(e) == IF Nullish(processedFilter) THEN TRUE
                   ELSE Prop(e.op, "processed") = processedFilter
        entries == SelectSeq(Slice(SortByTimestamp(d.operations), 0, limit), Keep)
    IN  [kind |-> "operations",
         entries |-> [i \in 1..Len(entries) |->
                        [id |-> entries[i].id, op |-> OperationView(entries[i].op)]]]

\* Lines 189-203.
listIndexOperationsResult(d, options) ==
    LET limit == LimitOf(options.limit)
        processedFilter == options.processed
        Keep(e) == IF Nullish(processedFilter) THEN TRUE
                   ELSE Prop(e.op, "processed") = processedFilter
        entries == Slice(SelectSeq(SortByTimestamp(d.operations), Keep), 0, limit)
    IN  [kind |-> "operations",
         entries |-> [i \in 1..Len(entries) |->
                        [id |-> entries[i].id, op |-> OperationView(entries[i].op)]]]

\* Line 225 of get: operation ? JSON.stringify(operation) : null.
getOperationText(r) == IF r.kind # "operation" THEN Null ELSE [kind |-> "text", text |-> JSONtext(r.op)]

\* Lines 257-258 of list.
listOperationKeys(r) ==
    [kind |-> "keys",
     keys |-> [i \in 1..Len(r.entries) |-> [name |-> OperationPrefix \o r.entries[i].id]]]

putIndexOperation(c) ==
    /\ pc[c] = "body" /\ call[c].method = "putIndexOperation"
    /\ Mutate(c, putIndexOperationData(data, call[c].key, call[c].operation), lastPut)

getIndexOperation(c) ==
    /\ pc[c] = "body" /\ call[c].method = "getIndexOperation"
    /\ Return(c, IF call[c].via = "get"
                 THEN getOperationText(getIndexOperationResult(data, call[c].key))
                 ELSE getIndexOperationResult(data, call[c].key))

deleteIndexOperation(c) ==
    /\ pc[c] = "body" /\ call[c].method = "deleteIndexOperation"
    /\ Mutate(c, deleteIndexOperationData(data, call[c].key), lastPut)

listIndexOperations(c) ==
    /\ pc[c] = "body" /\ call[c].method = "listIndexOperations"
    /\ Return(c, IF call[c].via = "list"
                 THEN listOperationKeys(listIndexOperationsResult(data, call[c]))
                 ELSE listIndexOperationsResult(data, call[c]))

\* ------------------------------------------------------------ public calls

CallOf(method, via) == [NoCall EXCEPT !.method = method, !.via = via]

FileCall(method, via, fileId) == [CallOf(method, via) EXCEPT !.key = fileId]

PutFileCall(via, fileId, value, metadata) ==
    [CallOf("putFile", via) EXCEPT !.key = fileId, !.value = value, !.metadata = metadata]

PutSettingCall(via, key, value) ==
    [CallOf("putSetting", via) EXCEPT !.key = key, !.value = value]

PutIndexOperationCall(via, operationId, operation) ==
    [CallOf("putIndexOperation", via) EXCEPT !.key = operationId, !.operation = operation]

ListCall(method, via, prefix, limit, cursor, processed) ==
    [CallOf(method, via) EXCEPT !.prefix = prefix, !.limit = limit, !.cursor = cursor,
                                !.processed = processed]

Limits == {NoLimit, Limit(0), Limit(1), Limit(2)}

Cursors == {None} \cup {Some(k) : k \in FileIds \cup {<<"b">>}}

\* The calls on the three namespaces' own methods.  getFileWithMetadata
\* (lines 89-91) is getFile.
FileCalls ==
    {PutFileCall("direct", k, v, m) : k \in FileIds, v \in FileValues, m \in MetadataOptions}
    \cup {FileCall("getFile", via, k) : via \in {"direct", "getFileWithMetadata"}, k \in FileIds}
    \cup {FileCall("deleteFile", "direct", k) : k \in FileIds}
    \cup {ListCall("listFiles", "direct", p, l, cur, "undefined") :
            p \in {None, Some(<<"a">>)}, l \in Limits, cur \in Cursors}

SettingCalls ==
    {PutSettingCall("direct", k, v) : k \in SettingKeys, v \in SettingValues}
    \cup {FileCall("getSetting", "direct", k) : k \in SettingKeys}
    \cup {FileCall("deleteSetting", "direct", k) : k \in SettingKeys}
    \cup {ListCall("listSettings", "direct", p, l, None, "undefined") :
            p \in {None, Some(SettingsPrefix), Some(SettingsPrefix \o <<"b">>)}, l \in Limits}

OperationCalls ==
    {PutIndexOperationCall("direct", id, op) : id \in OperationIds, op \in Operations}
    \cup {FileCall("getIndexOperation", "direct", id) : id \in OperationIds}
    \cup {FileCall("deleteIndexOperation", "direct", id) : id \in OperationIds}
    \cup {ListCall("listIndexOperations", "direct", None, l, None, f) :
            l \in Limits, f \in {"undefined", "null", "b:true", "b:false"}}

\* One of the namespace methods is called.
Invoke(c, calls) == \E m \in calls : Call(c, m)

\* ------------------------------------------------------- generic interface

GenericKeys == FileIds \cup SettingKeys \cup {OperationPrefix \o id : id \in OperationIds}

\* What a caller of the generic put passes for a key of each namespace.
GenericValues(key) ==
    IF StartsWith(key, SettingsPrefix) THEN SettingValues
    ELSE IF StartsWith(key, OperationPrefix) THEN {JSONtext(op) : op \in Operations}
    ELSE FileValues

GenericPrefixes ==
    {None, Some(<<"a">>), Some(<<"manage@">>), Some(SettingsPrefix), Some(OperationPrefix),
     Some(OperationPrefix \o <<"x">>)}

\* A put that has no settings branch: a settings key goes to the files.
putWithoutSettingsBranch(c, key, value, metadata) ==
    IF StartsWith(key, OperationPrefix)
    THEN Call(c, PutIndexOperationCall("put", StripPrefix(key, OperationPrefix),
                                               JSONparse(value)))
    ELSE Call(c, PutFileCall("put", key, value, metadata))

\* Lines 207-217.
put(c, key, value, metadata) ==
    IF StartsWith(key, SettingsPrefix)
    THEN Call(c, PutSettingCall("put", key, value))
    ELSE IF StartsWith(key, OperationPrefix)
    THEN Call(c, PutIndexOperationCall("put", StripPrefix(key, OperationPrefix),
                                               JSONparse(value)))
    ELSE Call(c, PutFileCall("put", key, value, metadata))

\* Lines 219-230.
get(c, key) ==
    IF StartsWith(key, SettingsPrefix)
    THEN Call(c, FileCall("getSetting", "get", key))
    ELSE IF StartsWith(key, OperationPrefix)
    THEN Call(c, FileCall("getIndexOperation", "get", StripPrefix(key, OperationPrefix)))
    ELSE Call(c, FileCall("getFile", "get", key))

\* Lines 232-238.
getWithMetadata(c, key) ==
    IF StartsWith(key, SettingsPrefix)
    THEN Call(c, FileCall("getSetting", "getWithMetadata", key))
    ELSE Call(c, FileCall("getFile", "getWithMetadata", key))

\* Lines 240-249.
delete(c, key) ==
    IF StartsWith(key, SettingsPrefix)
    THEN Call(c, FileCall("deleteSetting", "delete", key))
    ELSE IF StartsWith(key, OperationPrefix)
    THEN Call(c, FileCall("deleteIndexOperation", "delete",
                                  StripPrefix(key, OperationPrefix)))
    ELSE Call(c, FileCall("deleteFile", "delete", key))

\* Lines 251-261.
list(c, prefix, limit, cursor) ==
    IF StartsWith(PrefixOf(prefix), SettingsPrefix)
    THEN Call(c, ListCall("listSettings", "list", prefix, limit, cursor, "undefined"))
    ELSE IF StartsWith(PrefixOf(prefix), OperationPrefix)
    THEN Call(c, ListCall("listIndexOperations", "list", prefix, limit, cursor,
                                  "undefined"))
    ELSE Call(c, ListCall("listFiles", "list", prefix, limit, cursor, "undefined"))

\* -------------------------------------------------------------- behaviours

\* A step of a call that is in flight.
Step(c) ==
    \/ readFile(c)
    \/ ensureLoadedFinish(c)
    \/ putFile(c)
    \/ getFile(c)
    \/ deleteFile(c)
    \/ listFiles(c)
    \/ putSetting(c)
    \/ getSetting(c)
    \/ deleteSetting(c)
    \/ listSettings(c)
    \/ putIndexOperation(c)
    \/ getIndexOperation(c)
    \/ deleteIndexOperation(c)
    \/ listIndexOperations(c)
    \/ persist(c)
    \/ writeFile(c)
    \/ writeFileFails(c)
    \/ Settle(c)

\* A caller invokes any public method.
Request(c) ==
    \/ Invoke(c, FileCalls)
    \/ Invoke(c, SettingCalls)
    \/ Invoke(c, OperationCalls)
    \/ \E key \in GenericKeys, metadata \in MetadataOptions :
         \E value \in GenericValues(key) : put(c, key, value, metadata)
    \/ \E key \in GenericKeys : get(c, key)
    \/ \E key \in GenericKeys : getWithMetadata(c, key)
    \/ \E key \in GenericKeys : delete(c, key)
    \/ \E prefix \in GenericPrefixes, limit \in Limits, cursor \in {None, Some(<<"a">>)} :
         list(c, prefix, limit, cursor)

\* Calls issued one at a time: one caller, each call awaited before the next.
Next == (ncalls < MaxCalls /\ Request(1)) \/ Step(1)

Spec == Init /\ [][Next]_vars

\* Overlapping calls: two callers, no call waits for another.  The calls are
\* the reads and writes of single keys.
ConcurrentCalls ==
    {PutFileCall("direct", k, "s:v1", "undefined") : k \in {<<"a">>, <<"a", "b">>}}
    \cup {FileCall("deleteFile", "direct", <<"a">>), FileCall("getFile", "direct", <<"a">>)}
    \cup {PutSettingCall("direct", SettingsPrefix \o <<"a">>, "s:dark"),
          FileCall("getSetting", "direct", SettingsPrefix \o <<"a">>)}

ConcurrentStep(c) ==
    \/ readFile(c)
    \/ ensureLoadedFinish(c)
    \/ putFile(c)
    \/ getFile(c)
    \/ deleteFile(c)
    \/ putSetting(c)
    \/ getSetting(c)
    \/ persist(c)
    \/ writeFile(c)
    \/ writeFileFails(c)
    \/ Settle(c)

ConcurrentNext ==
    \E c \in Callers : (ncalls < MaxConcCalls /\ Invoke(c, ConcurrentCalls)) \/ ConcurrentStep(c)

SpecConcurrent == Init /\ [][ConcurrentNext]_vars

\* ------------------------------------------------------------------ paging

\* A client lists the files page by page: the first call has no cursor, each
\* later call passes the cursor of the page before.  Nothing else runs.
StoredFiles(ids) == [k \in ids |-> [value |-> "s:v1", metadata |-> "{tag}"]]

PagingInit ==
    /\ nodeRuntime = TRUE
    /\ disk \in {[kind |-> "object", doc |-> [EmptyData EXCEPT !.files = StoredFiles(ids)]] :
                   ids \in SUBSET FileIds}
    /\ Constructed

StartListing(c) ==
    /\ ~listing.started
    /\ \E prefix \in {None, Some(<<"a">>)}, limit \in Limits :
         /\ listing' = [started |-> TRUE, prefix |-> prefix, limit |-> limit, pages |-> <<>>]
         /\ ensureLoaded(c, ListCall("listFiles", "direct", prefix, limit, None, "undefined"))

FollowCursor(c) ==
    /\ listing.started
    /\ listing.pages # <<>>
    /\ Len(listing.pages) < MaxPages
    /\ listing.pages[Len(listing.pages)].cursor.given
    /\ listing' = listing
    /\ ensureLoaded(c, ListCall("listFiles", "direct", listing.prefix, listing.limit,
                                listing.pages[Len(listing.pages)].cursor, "undefined"))

TakePage(c) ==
    /\ pc[c] = "done"
    /\ listing' = [listing EXCEPT !.pages = Append(@, ret[c])]
    /\ pc' = [pc EXCEPT ![c] = "idle"]
    /\ call' = [call EXCEPT ![c] = NoCall]
    /\ ret' = [ret EXCEPT ![c] = NoResult]
    /\ UNCHANGED <<nodeRuntime, disk, data, dataLoaded, fsPromise, content, buffer, ncalls,
                   loads, logged, lastPut>>

PagingNext ==
    \/ StartListing(1)
    \/ FollowCursor(1)
    \/ readFile(1)
    \/ ensureLoadedFinish(1)
    \/ listFiles(1)
    \/ TakePage(1)

SpecPaging == PagingInit /\ [][PagingNext]_vars

\* ------------------------------------------- overlapping calls after the load

\* An instance whose first call has completed: the load is done (line 62)
\* and the fs module is cached.
LoadedInit ==
    /\ nodeRuntime = TRUE
    /\ disk \in InitialFiles
    /\ data = LoadedData(EmptyData, disk)
    /\ dataLoaded = TRUE
    /\ fsPromise = TRUE
    /\ pc = [c \in Callers |-> "idle"]
    /\ call = [c \in Callers |-> NoCall]
    /\ content = [c \in Callers |-> NoContent]
    /\ buffer = [c \in Callers |-> EmptyData]
    /\ ret = [c \in Callers |-> NoResult]
    /\ ncalls = 0
    /\ loads = IF disk.kind = "object" THEN 1 ELSE 0
    /\ logged = IF disk.kind \in {"unreadable", "malformed"} THEN 1 ELSE 0
    /\ lastPut = EmptyMap
    /\ listing = NoListing

\* Mutating calls on distinct keys: each caller has keys of its own.
LoadedCallsOf(c) ==
    IF c = 1
    THEN {PutFileCall("direct", <<"a">>, "s:v2", "undefined"),
          FileCall("deleteFile", "direct", <<"a">>),
          PutSettingCall("direct", SettingsPrefix \o <<"a">>, "s:")}
    ELSE {PutFileCall("direct", <<"a", "b">>, "s:v1", "{tag}"),
          FileCall("deleteSetting", "direct", SettingsPrefix \o <<"b">>),
          PutSettingCall("direct", SettingsPrefix \o <<"b">>, "s:dark"),
          PutIndexOperationCall("direct", <<"x">>,
              [type |-> "s:delete", timestamp |-> "n:1", data |-> "{}"])}

LoadedStep(c) ==
    \/ putFile(c)
    \/ deleteFile(c)
    \/ putSetting(c)
    \/ deleteSetting(c)
    \/ putIndexOperation(c)
    \/ persist(c)
    \/ writeFile(c)
    \/ writeFileFails(c)
    \/ Settle(c)

LoadedNext ==
    \E c \in Callers :
        (ncalls < MaxConcCalls /\ Invoke(c, LoadedCallsOf(c))) \/ LoadedStep(c)

SpecLoaded == LoadedInit /\ [][LoadedNext]_vars

\* -------------------------------------------------------- shared identifiers

\* The namespaces' own methods called with the same identifiers: a caller may
\* use one string as a file id, as a setting key and as an operation id.
SharedIds == {<<"a">>, <<"x">>}

SharedCalls ==
    {PutFileCall("direct", id, "s:v2", "undefined") : id \in SharedIds}
    \cup {PutSettingCall("direct", id, "s:dark") : id \in SharedIds}
    \cup {PutIndexOperationCall("direct", id, [type |-> "s:upload", timestamp |-> "n:1",
                                                data |-> "{}"]) : id \in SharedIds}
    \cup {FileCall(method, "direct", id) :
            method \in {"getFile", "deleteFile", "getSetting", "deleteSetting",
                        "getIndexOperation", "deleteIndexOperation"},
            id \in SharedIds}

SharedStep(c) ==
    \/ readFile(c)
    \/ ensureLoadedFinish(c)
    \/ putFile(c)
    \/ getFile(c)
    \/ deleteFile(c)
    \/ putSetting(c)
    \/ getSetting(c)
    \/ deleteSetting(c)
    \/ putIndexOperation(c)
    \/ getIndexOperation(c)
    \/ deleteIndexOperation(c)
    \/ persist(c)
    \/ writeFile(c)
    \/ writeFileFails(c)
    \/ Settle(c)

SharedNext == (ncalls < MaxSharedCalls /\ Invoke(1, SharedCalls)) \/ SharedStep(1)

SpecShared == Init /\ [][SharedNext]_vars

\* -------------------------------------------------------- any file content

\* JSON texts that are not a Document: an array, and null or a primitive.
OtherContents ==
    {[kind |-> "array", doc |-> [elements |-> <<>>]],
     [kind |-> "scalar", doc |-> [scalar |-> "null"]],
     [kind |-> "scalar", doc |-> [scalar |-> "n:0"]],
     [kind |-> "object", doc |-> [settings |-> SampleData.settings,
                                  operations |-> SampleData.operations]]}

AnyContentInit ==
    /\ nodeRuntime = TRUE
    /\ disk \in InitialFiles \cup OtherContents
    /\ Constructed

SpecAnyContent == AnyContentInit /\ [][Next]_vars

\* ------------------------------------------------------------------ claims

\* C1: a getFile(k) that returns after putFile(k, v, {metadata: m}) returned
\* success, with no write or delete of k in the files namespace since,
\* returns exactly {value: v, metadata: m}.
C1_FileRoundTrip ==
    \A c \in Callers :
        (/\ pc[c] = "done"
         /\ call[c].method = "getFile"
         /\ call[c].via \in {"direct", "getFileWithMetadata"}
         /\ call[c].key \in DOMAIN lastPut
         /\ lastPut[call[c].key].returned)
        => ret[c] = [kind |-> "file", value |-> lastPut[call[c].key].value,
                     metadata |-> lastPut[call[c].key].metadata]

C1_Witness ==
    /\ pc[1] = "done"
    /\ call[1].method = "getFile"
    /\ call[1].via = "direct"
    /\ call[1].key \in DOMAIN lastPut
    /\ lastPut[call[1].key].returned
    /\ ret[1] = [kind |-> "file", value |-> "s:v2", metadata |-> "{tag}"]

\* What a caller can observe of a Document through the namespaces' own
\* readers: every file, every setting, and the list of operations.
Observe(d) ==
    [files |-> [k \in DOMAIN d.files |-> getFileResult(d, k)],
     settings |-> [k \in DOMAIN d.settings |-> getSettingResult(d, k)],
     operations |-> listIndexOperationsResult(d, NoCall).entries]

\* C2: with calls issued one at a time, whenever a mutating operation has
\* returned success the backing file holds the serialisation of the whole
\* in-memory Document, and a new adapter instance that loads the file
\* observes the same files, settings and operations.
C2_Durable ==
    \A c \in Callers :
        (pc[c] = "done" /\ ret[c].kind = "success")
        => /\ disk.kind = "object"
           /\ disk.doc = JSONstringify(data)
           /\ Observe(LoadedData(EmptyData, disk)) = Observe(data)

C2_Witness ==
    /\ pc[1] = "done"
    /\ ret[1].kind = "success"
    /\ call[1].method = "putIndexOperation"
    /\ DOMAIN data.files # {}
    /\ DOMAIN data.settings # {}
    /\ Len(data.operations) = 2

\* The names of the pages taken so far, one after another.
RECURSIVE PageNames(_)
PageNames(pages) ==
    IF pages = <<>> THEN <<>>
    ELSE PageNames(SubSeq(pages, 1, Len(pages) - 1))
         \o [i \in 1..Len(pages[Len(pages)].keys) |-> pages[Len(pages)].keys[i].name]

\* The keys of the files namespace that start with the listing's prefix, sorted.
Matching == SortKeys({k \in DOMAIN data.files : StartsWith(k, PrefixOf(listing.prefix))})

\* C3: following the cursors of listFiles over an unchanged namespace yields
\* every key that starts with the prefix exactly once, in ascending order:
\* the names of the pages so far are the first of the sorted matching keys,
\* and all of them once a page comes without a cursor; list_complete is true
\* on that last page and false on every page before.
C3_PaginationComplete ==
    (listing.started /\ listing.pages # <<>>)
    => LET names == PageNames(listing.pages)
           n == Len(listing.pages)
       IN  /\ Len(names) <= Len(Matching)
           /\ names = SubSeq(Matching, 1, Len(names))
           /\ \A i \in 1..n :
                listing.pages[i].list_complete = ~listing.pages[i].cursor.given
           /\ \A i \in 1..(n - 1) : ~listing.pages[i].list_complete
           /\ listing.pages[n].list_complete => names = Matching

\* The listing of C3 where it works: the two keys under prefix "a", one per
\* page, all listed.
C3_PagingWorks ==
    /\ listing.started
    /\ listing.prefix = Some(<<"a">>)
    /\ Len(listing.pages) = 2
    /\ listing.pages[2].list_complete
    /\ PageNames(listing.pages) = <<<<"a">>, <<"a", "b">>>>

\* A putFile that returned success, not written over since, whose record
\* this.data no longer holds.
LostInMemory ==
    \E k \in DOMAIN lastPut :
        /\ lastPut[k].returned
        /\ getFileResult(data, k) # [kind |-> "file", value |-> lastPut[k].value,
                                  metadata |-> lastPut[k].metadata]

C5_LoadOnce == loads <= 1

\* C6: when the backing file is absent, unreadable or not JSON, the first
\* operation on a new adapter instance gets no error from the load (it fails
\* only if its own write fails), the store is empty to it (a get returns
\* null, a list returns no keys), and an error is logged exactly when the
\* file is there.
EmptyResult(m) ==
    CASE m.method = "listFiles" -> [kind |-> "files", keys |-> <<>>, cursor |-> None,
                                    list_complete |-> TRUE]
      [] m.method = "listSettings" -> [kind |-> "settings", keys |-> <<>>]
      [] m.method = "listIndexOperations" /\ m.via = "list" -> [kind |-> "keys", keys |-> <<>>]
      [] m.method = "listIndexOperations" -> [kind |-> "operations", entries |-> <<>>]
      [] OTHER -> Null

C6_LoadFailureTolerance ==
    (nodeRuntime /\ ncalls = 1 /\ disk.kind \in {"absent", "unreadable", "malformed"})
    => /\ pc[1] = "failed" => ret[1] = WriteError
       /\ pc[1] = "done" => ret[1] = EmptyResult(call[1])
       /\ pc[1] = "body" => data = EmptyData
       /\ dataLoaded => logged = (IF disk.kind = "absent" THEN 0 ELSE 1)

C6_Witness ==
    /\ ncalls = 1
    /\ disk.kind = "malformed"
    /\ pc[1] = "done"
    /\ call[1].method = "getFile"
    /\ ret[1] = Null
    /\ logged = 1

\* C7: without a Node.js runtime every public operation fails with the
\* configuration error, and the Document, the loaded flag and the file are
\* left as they were.
C7_FailFast ==
    ~nodeRuntime
    => /\ \A c \in Callers : pc[c] \in {"idle", "failed"}
       /\ \A c \in Callers : pc[c] = "failed" => ret[c] = ConfigError
       /\ data = EmptyData
       /\ ~dataLoaded
       /\ ~fsPromise
       /\ disk \in InitialFiles

C7_Witness ==
    /\ ~nodeRuntime
    /\ ncalls = 2
    /\ pc[1] = "failed"
    /\ call[1].via = "put"
    /\ ret[1] = ConfigError

\* C8: a call whose write of the backing file failed ends with the write
\* error, not with {success: true}, and no call writes the file twice.
C8_PersistFailurePropagates ==
    \A c \in Callers :
        /\ call[c].writes <= 1
        /\ (pc[c] = "failed" /\ call[c].writes = 1) => ret[c] = WriteError
        /\ ret[c] = WriteError => (pc[c] = "failed" /\ call[c].writes = 1)
        /\ pc[c] = "writeFile" => call[c].writes = 1

C8_Witness ==
    /\ pc[1] = "failed"
    /\ ret[1] = WriteError
    /\ call[1].method = "putFile"
    /\ call[1].writes = 1

IndexOperationMethods == {"putIndexOperation", "getIndexOperation", "deleteIndexOperation"}

\* A generic call whose key starts with the operation prefix: it is either
\* routed to an operation method (the key is then the stripped id) or still
\* carries the prefix.
OnOperationKey(m) ==
    /\ m.via \in {"put", "get", "getWithMetadata", "delete"}
    /\ m.method \in IndexOperationMethods \/ StartsWith(m.key, OperationPrefix)

OperationIdOf(m) ==
    IF StartsWith(m.key, OperationPrefix) THEN StripPrefix(m.key, OperationPrefix) ELSE m.key

\* C9: for a key 'manage@index@operation_' + id each of the generic put, get,
\* getWithMetadata and delete acts on entry id of the operations namespace,
\* never on the files namespace; get and getWithMetadata report the
\* operation as present exactly when the operations namespace holds id.
C9_OperationPrefixRouting ==
    \A c \in Callers :
        (OnOperationKey(call[c]) /\ pc[c] = "done")
        => /\ call[c].method \in IndexOperationMethods
           /\ call[c].via \in {"get", "getWithMetadata"}
              => (ret[c] = Null
                  <=> OperationIndex(data.operations, OperationIdOf(call[c])) = 0)

\* C10: for a settings key k, with every put so far written to the file,
\* getWithMetadata(k) returns {value: v, metadata: {}} with the v that get(k)
\* returns, and null only when get(k) returns null.
C10_SettingsWithMetadata ==
    \A c \in Callers :
        (/\ pc[c] = "done"
         /\ call[c].via = "getWithMetadata"
         /\ StartsWith(call[c].key, SettingsPrefix)
         /\ disk.kind = "object"
         /\ disk.doc = JSONstringify(data))
        => ret[c] = IF getSettingResult(data, call[c].key) = Null
                    THEN Null
                    ELSE [kind |-> "file",
                          value |-> getSettingResult(data, call[c].key).value,
                          metadata |-> "{}"]

\* The names of a list result.
ListedNames(r) == {r.keys[i].name : i \in 1..Len(r.keys)}

\* C11: a key that starts with the settings prefix is never held by the
\* files namespace nor returned by listFiles (called directly or through the
\* generic list), and a key that does not start with it is never held by the
\* settings namespace nor returned by listSettings.
C11_RoutingCorrectness ==
    /\ \A k \in DOMAIN data.files : ~StartsWith(k, SettingsPrefix)
    /\ \A k \in DOMAIN data.settings : StartsWith(k, SettingsPrefix)
    /\ \A c \in Callers :
         /\ (pc[c] = "done" /\ call[c].method = "listFiles")
            => \A k \in ListedNames(ret[c]) : ~StartsWith(k, SettingsPrefix)
         /\ (pc[c] = "done" /\ call[c].method = "listSettings")
            => \A k \in ListedNames(ret[c]) : StartsWith(k, SettingsPrefix)

\* A generic put of a settings key and of a file key have been made, and the
\* generic list over the settings shows the one and not the other.
C11_Witness ==
    /\ pc[1] = "done"
    /\ call[1].method = "listSettings"
    /\ call[1].via = "list"
    /\ SettingsPrefix \o <<"b">> \in ListedNames(ret[1])
    /\ DOMAIN data.files # {}

\* C12: whatever the backing file held at first, every text handed to
\* writeFile is a JSON object with the keys files, settings and operations,
\* and so is the file once a write has landed.
C12_OnDiskFormat ==
    \A c \in Callers :
        /\ pc[c] = "writeFile"
           => (TextKind(buffer[c]) = "object" /\ Namespaces \subseteq DOMAIN buffer[c])
        /\ (pc[c] = "done" /\ ret[c] = Success)
           => (disk.kind = "object" /\ Namespaces \subseteq DOMAIN disk.doc)

\* C12 where it holds: a file that lacked namespaces is written with all three.
C12_DefaultsWritten ==
    /\ ncalls = 1
    /\ pc[1] = "done" /\ ret[1] = Success
    /\ call[1].method = "putSetting"
    /\ disk.kind = "object"
    /\ DOMAIN disk.doc = Namespaces
    /\ DOMAIN disk.doc.files # {}

\* The ids of the stored operations whose processed flag is exactly true.
ProcessedIds(d) ==
    {d.operations[i].id : i \in {j \in 1..Len(d.operations) :
                                    Prop(d.operations[j].op, "processed") = "b:true"}}

\* C13: listIndexOperations({processed: true}) returns only records whose
\* processed flag is true, each once, in ascending order of timestamp (none
\* counting as 0), and all of them when they are no more than the limit
\* asked for (or no limit is given).
C13_OperationFilter ==
    \A c \in Callers :
        (/\ pc[c] = "done"
         /\ call[c].method = "listIndexOperations"
         /\ call[c].via = "direct"
         /\ call[c].processed = "b:true")
        => LET entries == ret[c].entries
               ids == {entries[i].id : i \in 1..Len(entries)}
               n == IF call[c].limit.given THEN call[c].limit.n ELSE DefaultLimit
           IN  /\ \A i \in 1..Len(entries) : entries[i].op.processed = "b:true"
               /\ ids \subseteq ProcessedIds(data)
               /\ Cardinality(ids) = Len(entries)
               /\ \A i, j \in 1..Len(entries) :
                    i < j => TimestampNumber(entries[i].op.timestamp)
                             <= TimestampNumber(entries[j].op.timestamp)
               /\ Cardinality(ProcessedIds(data)) <= n => ids = ProcessedIds(data)

\* Two operations are stored, the one with the earlier timestamp is not
\* processed, and the list with limit 1 returns the processed one.
C13_Witness ==
    /\ pc[1] = "done"
    /\ call[1].method = "listIndexOperations"
    /\ call[1].via = "direct"
    /\ call[1].processed = "b:true"
    /\ call[1].limit = Limit(1)
    /\ Len(data.operations) = 2
    /\ Len(ret[1].entries) = 1
    /\ \E i \in 1..2 :
         /\ Prop(data.operations[i].op, "processed") # "b:true"
         /\ TimestampNumber(Prop(data.operations[i].op, "timestamp"))
            < TimestampNumber(ret[1].entries[1].op.timestamp)

DeleteMethods == {"deleteFile", "deleteSetting", "deleteIndexOperation"}

\* The key of call m is absent from the namespace m acts on.
KeyAbsent(d, m) ==
    CASE m.method = "deleteFile" -> m.key \notin DOMAIN d.files
      [] m.method = "deleteSetting" -> m.key \notin DOMAIN d.settings
      [] OTHER -> OperationIndex(d.operations, m.key) = 0

\* The Document after the delete of call m.
Deleted(d, m) ==
    CASE m.method = "deleteFile" -> deleteFileData(d, m.key)
      [] m.method = "deleteSetting" -> deleteSettingData(d, m.key)
      [] OTHER -> deleteIndexOperationData(d, m.key)

\* C14: in each namespace the delete of an absent key leaves the whole
\* Document as it was, the Document after a delete is the one a second delete
\* of the same key leaves, and a delete whose write lands returns success.
C14_IdempotentDelete ==
    [][\A c \in Callers :
         /\ (pc[c] = "body" /\ pc'[c] # "body" /\ call[c].method \in DeleteMethods)
            => /\ KeyAbsent(data, call[c]) => data' = data
               /\ KeyAbsent(data', call[c])
               /\ Deleted(data', call[c]) = data'
               /\ pc'[c] = "persist"
         /\ (pc[c] = "writeFile" /\ pc'[c] = "done" /\ call[c].method \in DeleteMethods)
            => ret'[c] = Success]_vars

\* A setting that the store does not hold has been deleted, with success,
\* from a store that holds other settings, files and operations.
C14_Witness ==
    /\ ncalls = 1
    /\ pc[1] = "done"
    /\ ret[1] = Success
    /\ call[1].method = "deleteSetting"
    /\ call[1].key = SettingsPrefix \o <<"b">>
    /\ data = SampleData

\* C15: the body of a put or delete of one namespace leaves the other two
\* namespaces as they were, whatever identifiers the three hold.
C15_NamespaceIndependence ==
    [][\A c \in Callers :
         (pc[c] = "body" /\ pc'[c] # "body")
         => /\ call[c].method \in {"putFile", "deleteFile"}
               => (data'.settings = data.settings /\ data'.operations = data.operations)
            /\ call[c].method \in {"putSetting", "deleteSetting"}
               => (data'.files = data.files /\ data'.operations = data.operations)
            /\ call[c].method \in {"putIndexOperation", "deleteIndexOperation"}
               => (data'.files = data.files /\ data'.settings = data.settings)]_vars

\* One identifier is a file id, a setting key and an operation id at once,
\* each with its own value, and getSetting returns the setting.
C15_Coexist ==
    /\ pc[1] = "done"
    /\ call[1].method = "getSetting"
    /\ call[1].key = <<"a">>
    /\ ret[1] = [kind |-> "value", value |-> "s:dark"]
    /\ getFileResult(data, <<"a">>) = [kind |-> "file", value |-> "s:v1", metadata |-> "{tag}"]
    /\ getIndexOperationResult(data, <<"a">>) # Null

\* The cursor of call m is given and is not one of the stored keys that
\* start with the prefix of m.
CursorNotFound(d, m) ==
    /\ m.cursor.given
    /\ ~(m.cursor.s \in DOMAIN d.files /\ StartsWith(m.cursor.s, PrefixOf(m.prefix)))

\* C16: listFiles with a cursor that is not among the keys matching the
\* prefix returns a result, not an error (but for the error of a missing
\* Node.js runtime), and the result is that of the same call without a cursor.
C16_CursorFallback ==
    \A c \in Callers :
        (call[c].method = "listFiles" /\ CursorNotFound(data, call[c]))
        => /\ pc[c] = "failed" => (~nodeRuntime /\ ret[c] = ConfigError)
           /\ pc[c] = "done"
              => ret[c] = listFilesResult(data, [call[c] EXCEPT !.cursor = None])

\* File 'a' was deleted, other files are stored, and listFiles with the
\* cursor 'a' and limit 1 returns the first page again.
C16_Witness ==
    /\ ncalls = 2
    /\ pc[1] = "done"
    /\ call[1].method = "listFiles"
    /\ call[1].cursor = Some(<<"a">>)
    /\ call[1].limit = Limit(1)
    /\ disk.kind = "object"
    /\ "files" \in DOMAIN disk.doc
    /\ DOMAIN disk.doc.files = {<<"a", "b">>}
    /\ DOMAIN data.files = {<<"a", "b">>}
    /\ Len(ret[1].keys) = 1
    /\ ret[1].keys[1].name = <<"a", "b">>

ListMethods == {"listFiles", "listSettings", "listIndexOperations"}

\* The entries of a list result.
Entries(r) == IF r.kind = "operations" THEN r.entries ELSE r.keys

\* Keys of the files namespace that match the prefix of call m and come after
\* the last name of result r.
KeysRemain(d, m, r) ==
    /\ r.keys # <<>>
    /\ \E k \in DOMAIN d.files :
         StartsWith(k, PrefixOf(m.prefix)) /\ StrLess(r.keys[Len(r.keys)].name, k)

\* Result r of list call m, made with a limit, has at most that many
\* entries, and a listFiles result has a cursor exactly when keys remain.
LimitRespected(d, m, r) ==
    /\ Len(Entries(r)) <= m.limit.n
    /\ m.method = "listFiles" => (r.cursor.given <=> KeysRemain(d, m, r))

\* C17: a list call made with a limit (any integer from 0) returns at most
\* limit entries, and listFiles returns a cursor exactly when matching keys
\* remain after the last returned one.
C17_ResultSizeLimit ==
    \A c \in Callers :
        (pc[c] = "done" /\ call[c].method \in ListMethods /\ call[c].limit.given)
        => LimitRespected(data, call[c], ret[c])

\* C18: every name the generic list returns starts with the prefix it was
\* called with, whichever namespace the prefix is routed to.
C18_PrefixContainment ==
    \A c \in Callers :
        (pc[c] = "done" /\ call[c].via = "list")
        => \A k \in ListedNames(ret[c]) : StartsWith(k, PrefixOf(call[c].prefix))

\* C19: when the first call on an instance fails by its write, the in-memory
\* Document is observed as the file's content is: the call left no change
\* in memory.
C19_FailedPersistLeavesMemory ==
    \A c \in Callers :
        (ncalls = 1 /\ pc[c] = "failed" /\ ret[c] = WriteError)
        => Observe(data) = Observe(LoadedData(EmptyData, disk))

\* Document d shows the change of the mutating call m.
Applied(d, m) ==
    CASE m.method = "putFile"
           -> getFileResult(d, m.key) = [kind |-> "file", value |-> m.value,
                                         metadata |-> IF m.metadata = "undefined"
                                                      THEN "{}" ELSE m.metadata]
      [] m.method = "deleteFile" -> getFileResult(d, m.key) = Null
      [] m.method = "putSetting" -> m.key \in DOMAIN d.settings /\ d.settings[m.key] = m.value
      [] m.method = "deleteSetting" -> m.key \notin DOMAIN d.settings
      [] m.method = "putIndexOperation"
           -> getIndexOperationResult(d, m.key) = [kind |-> "operation",
                                                   op |-> OperationView(m.operation)]
      [] m.method = "deleteIndexOperation" -> getIndexOperationResult(d, m.key) = Null
      [] OTHER -> TRUE

\* The call of caller c has run its body.
PastBody(c) == pc[c] \in {"persist", "writeFile", "done", "failed"}

\* this.data shows the change of every call that has run its body, and a
\* text handed to writeFile shows the change of its own call.
AllApplied ==
    \A c \in Callers :
        /\ PastBody(c) => Applied(data, call[c])
        /\ pc[c] = "writeFile"
           => Applied(LoadedData(EmptyData, [kind |-> "object", doc |-> buffer[c]]), call[c])

\* A write is issued with the serialisation of this.data as it is then.
IssuedWritesWhole ==
    \A c \in Callers :
        (pc[c] = "persist" /\ pc'[c] = "writeFile") => buffer'[c] = JSONstringify(data)

\* C20: on an instance that is loaded, overlapping mutating calls on
\* distinct keys lose nothing in memory: this.data shows the change of every
\* call that has run its body, and every write is issued with the whole of
\* this.data, so the one issued last carries every change.
C20_NoLostUpdateAfterLoad == []AllApplied /\ [][IssuedWritesWhole]_vars

\* Two calls overlap, both have issued their write, the write issued last
\* carries both changes and the other one only its own.
C20_Witness ==
    /\ pc[1] = "writeFile" /\ call[1].method = "putFile"
    /\ pc[2] = "writeFile" /\ call[2].method = "putIndexOperation"
    /\ buffer[2] = JSONstringify(data)
    /\ buffer[1] # buffer[2]
    /\ Applied(data, call[1])
    /\ Applied(data, call[2])

====
